---- MODULE Spec2Model ----
(***************************************************************************)
(* Decoding orchestration of neural_sp's Seq2seq model                     *)
(* (src/neural_sp/models/seq2seq/seq2seq.py): the batch reordering of      *)
(* encode, the strategy dispatch of decode, and the forward-backward       *)
(* hypothesis fusion of fwd_bwd_attention.                                 *)
(*                                                                         *)
(* Weights are kept in tenths (WeightOne = 1.0).  Python lists are TLA+    *)
(* sequences; a Python index i is position i + 1, and PyAt gives Python's  *)
(* reading of a negative index.                                            *)
(***************************************************************************)
EXTENDS Integers, Sequences, FiniteSets, TLC

VARIABLES
    cfg,        \* the constructor's arguments kept by the model object
    req,        \* the arguments of the last decode call
    perm_idx,   \* encode's permutation index of that call
    calls,      \* the operations that call invoked on its collaborators, in order
    path,       \* the branch of decode that call took
    best_hyps,  \* the hypotheses that call returned, NoHyps when it raised
    aws,        \* the alignments that call returned, NoAws for None
    err,        \* the exception that call raised, "none" when it returned
    fus_in,     \* the n-best sets last handed to fwd_bwd_attention
    fus_out     \* what fwd_bwd_attention made of them

vars == <<cfg, req, perm_idx, calls, path, best_hyps, aws, err, fus_in, fus_out>>

-----------------------------------------------------------------------------
(* Bounds *)

\* The largest batch handed to decode or encode: with three items, two can tie
\* in length behind or before a third.
MaxBatch == 3

\* The lengths an input item may have: one tie and one difference are possible.
ItemLens == {1, 2}

\* The most tokens the two hypotheses of a one-rank item hold together.
MaxTokens == 5

\* A hypothesis has one to three tokens: with three, the cross-splice search
\* visits a step that is neither the first nor the last.
HypLens == {1, 2, 3}

\* Token ids (<eos> and one other), arg-max timesteps, and the negated
\* log-probability of one step.
Tokens == {2, 5}
Steps == {0, 1}
Drops == {0, 1}

-----------------------------------------------------------------------------
(* Reserved token ids and weights *)

eos == 2
WeightOne == 10

None == "None"

\* aws = None: no alignments, the empty list of them.
NoAws == <<>>

\* What is left of the hypotheses when a call raises: nothing is returned.
NoHyps == <<>>

-----------------------------------------------------------------------------
(* Python list helpers *)

\* s[i] for a Python index i, negative indices counting from the end.
PyAt(s, i) == IF i >= 0 THEN s[i + 1] ELSE s[Len(s) + i + 1]

\* s[:i]
PyPrefix(s, i) == SubSeq(s, 1, i)

\* s[i:]
PySuffix(s, i) == SubSeq(s, i + 1, Len(s))

-----------------------------------------------------------------------------
(* sorted(..., key=..., reverse=True) *)

\* One step of the sort: e goes behind every entry whose key is not smaller, so
\* entries with equal keys keep the order they came in.
RECURSIVE InsertDesc(_, _)
InsertDesc(s, e) ==
    IF s = <<>> THEN <<e>>
    ELSE IF Head(s).k < e.k THEN <<e>> \o s
    ELSE <<Head(s)>> \o InsertDesc(Tail(s), e)

\* Python's sorted with reverse=True on entries [k |-> key, v |-> value]:
\* descending by key, stable.
\* The values of sorted entries, in their order.
Values(srt) == [j \in 1..Len(srt) |-> srt[j].v]

RECURSIVE PySortedReverse(_)
PySortedReverse(s) ==
    IF s = <<>> THEN <<>>
    ELSE InsertDesc(PySortedReverse(SubSeq(s, 1, Len(s) - 1)), s[Len(s)])

-----------------------------------------------------------------------------
(* Seq2seq.__init__ *)

Tasks == {"ys", "ys_sub1", "ys_sub2"}

fwd_weight(c) == WeightOne - c.bwd_weight

main_weight(c) == WeightOne - c.sub1_weight - c.sub2_weight

\* The decoder attributes the constructor sets.
Decoders(c) ==
    (IF fwd_weight(c) > 0 \/ c.ctc_weight > 0 THEN {"dec_fwd"} ELSE {})
    \cup (IF c.bwd_weight > 0 THEN {"dec_bwd"} ELSE {})
    \cup (IF c.sub1_weight > 0 \/ (c.mtl_per_batch /\ c.dict_sub1)
          THEN {"dec_fwd_sub1"} ELSE {})
    \cup (IF c.sub2_weight > WeightOne \/ (c.mtl_per_batch /\ c.dict_sub2)
          THEN {"dec_fwd_sub2"} ELSE {})

\* The task setups explored: no sub-task, the first, or both at weight 0.2, the
\* last with or without mtl_per_batch.
SubTaskSetups ==
    {[sub1_weight |-> 0, sub2_weight |-> 0, mtl_per_batch |-> FALSE],
     [sub1_weight |-> 2, sub2_weight |-> 0, mtl_per_batch |-> FALSE],
     [sub1_weight |-> 2, sub2_weight |-> 2, mtl_per_batch |-> FALSE],
     [sub1_weight |-> 2, sub2_weight |-> 2, mtl_per_batch |-> TRUE]}

\* The sub-task CTC weights a setup may come with: 0, or 1 on the sub-tasks that
\* have a weight.
SubCtcWeights(st) ==
    {[sub1 |-> 0, sub2 |-> 0],
     [sub1 |-> IF st.sub1_weight > 0 THEN WeightOne ELSE 0,
      sub2 |-> IF st.sub2_weight > 0 THEN WeightOne ELSE 0]}

\* The configurations explored: CTC and backward weights of 0, 0.5 and 1, a task
\* setup, and whether language models were registered on the object after
\* construction, all with an LSTM encoder and no bridge layer.
Configs ==
    UNION {{[ctc_weight |-> cw,
             ctc_weight_sub1 |-> cs.sub1, ctc_weight_sub2 |-> cs.sub2,
             bwd_weight |-> bw,
             sub1_weight |-> st.sub1_weight, sub2_weight |-> st.sub2_weight,
             mtl_per_batch |-> st.mtl_per_batch,
             dict_sub1 |-> TRUE, dict_sub2 |-> TRUE,
             enc_type |-> "lstm", bridge_layer |-> FALSE,
             rnnlms |-> lm] :
               cw \in {0, 5, WeightOne}, bw \in {0, 5, WeightOne},
               cs \in SubCtcWeights(st),
               lm \in {{}, {"rnnlm_fwd", "rnnlm_bwd"}}} : st \in SubTaskSetups}

\* The weight of a task in the model's loss.
TaskWeight(c, task) ==
    CASE task = "ys" -> main_weight(c)
      [] task = "ys_sub1" -> c.sub1_weight
      [] task = "ys_sub2" -> c.sub2_weight

\* The attribute that holds a task's bridge.
BridgeName(task) ==
    CASE task = "ys" -> "bridge"
      [] task = "ys_sub1" -> "bridge_sub1"
      [] task = "ys_sub2" -> "bridge_sub2"

\* The bridge attributes the constructor sets: with a CNN encoder or with
\* bridge_layer, the main task's bridge and one for each sub-task of weight > 0.
Bridges(c) ==
    IF c.enc_type = "cnn" \/ c.bridge_layer
    THEN {"bridge"}
         \cup (IF c.sub1_weight > 0 THEN {"bridge_sub1"} ELSE {})
         \cup (IF c.sub2_weight > 0 THEN {"bridge_sub2"} ELSE {})
    ELSE {}

\* The encoder setups explored for encode: an LSTM or a CNN encoder, with or
\* without bridge_layer.
EncoderSetups == [enc_type : {"lstm", "cnn"}, bridge_layer : BOOLEAN]

\* The sub-task weights explored for encode: the main task's weight is 1, 0.8,
\* 0.6 or 0.
EncodeWeights ==
    {[sub1_weight |-> 0, sub2_weight |-> 0], [sub1_weight |-> 2, sub2_weight |-> 0],
     [sub1_weight |-> 0, sub2_weight |-> 2], [sub1_weight |-> 2, sub2_weight |-> 2],
     [sub1_weight |-> 5, sub2_weight |-> 5], [sub1_weight |-> WeightOne, sub2_weight |-> 0]}

\* The configurations explored for encode, which reads the task weights and the
\* encoder setup only.
EncodeConfigs ==
    {[ctc_weight |-> 0, ctc_weight_sub1 |-> 0, ctc_weight_sub2 |-> 0,
      bwd_weight |-> 0,
      sub1_weight |-> w.sub1_weight, sub2_weight |-> w.sub2_weight,
      mtl_per_batch |-> FALSE, dict_sub1 |-> TRUE, dict_sub2 |-> TRUE,
      enc_type |-> e.enc_type, bridge_layer |-> e.bridge_layer,
      rnnlms |-> {}] : w \in EncodeWeights, e \in EncoderSetups}

-----------------------------------------------------------------------------
(* Seq2seq.encode *)

\* A permutation index that looks each sorted length up in the batch and finds
\* the first item of that length.
EncodePermFirstOfLength(xs) ==
    LET srt == Values(PySortedReverse([i \in 1..Len(xs) |-> [k |-> xs[i], v |-> xs[i]]]))
    IN  [j \in 1..Len(xs) |->
            (CHOOSE i \in 1..Len(xs) :
                xs[i] = srt[j] /\ \A h \in 1..(i - 1) : xs[h] # srt[j]) - 1]

\* A permutation index from an ascending sort read backwards: the items of one
\* length come out in reverse.
EncodePermTiesReversed(xs) ==
    Values(PySortedReverse([i \in 1..Len(xs) |->
        [k |-> xs[Len(xs) + 1 - i], v |-> Len(xs) - i]]))

\* perm_idx: the indices 0..B-1 sorted by the items' lengths, longest first.
\* xs is the batch as the sequence of its items' lengths.
EncodePerm(xs) ==
    Values(PySortedReverse([i \in 1..Len(xs) |-> [k |-> xs[i], v |-> i - 1]]))

\* xs = [xs[i] for i in perm_idx]
Reorder(xs, perm) == [j \in 1..Len(perm) |-> xs[perm[j] + 1]]

\* The rows of a batch handed to the encoder as the caller gave it.
EncRowsNoReorder(xs, perm) == [i \in 1..Len(xs) |-> i - 1]

\* The input item behind each row of the batch the encoder is given: the batch
\* reordered by perm, each item named by its index in the caller's batch.
EncRows(xs, perm) == Reorder([i \in 1..Len(xs) |-> i - 1], perm)

\* A bridging that looks at the weights and the encoder alone, whatever task
\* encode was asked for.
BridgedAnyTask(c, task) ==
    LET on(t) == IF TaskWeight(c, t) > 0 /\ (c.enc_type = "cnn" \/ c.bridge_layer)
                 THEN <<t>> ELSE <<>>
    IN  on("ys") \o on("ys_sub1") \o on("ys_sub2")

\* The tasks whose encoder output encode(xs, task) hands to a bridge, in order.
Bridged(c, task) ==
    LET on(t) == IF /\ TaskWeight(c, t) > 0
                    /\ (c.enc_type = "cnn" \/ c.bridge_layer)
                    /\ task \in {"all", t}
                 THEN <<t>> ELSE <<>>
    IN  on("ys") \o on("ys_sub1") \o on("ys_sub2")

\* Whether one of these bridges is an attribute the constructor did not set:
\* encode raises AttributeError.
BridgeMissing(c, task) ==
    \E j \in 1..Len(Bridged(c, task)) : BridgeName(Bridged(c, task)[j]) \notin Bridges(c)

\* The call of encode as the log of calls keeps it.
EncodeCall(c, task) ==
    <<[op |-> "encode", obj |-> "self", enc |-> task,
       args |-> [task |-> task, bridged |-> Bridged(c, task)]]>>

-----------------------------------------------------------------------------
(* fwd_bwd_attention *)

(* One hypothesis of an n-best set is [hyp, aw, score]: its token ids, the    *)
(* arg-max input timestep of each row of its alignment matrix, and its        *)
(* cumulative scores.  One batch item is [fwd, bwd], the two directions'      *)
(* hypotheses by rank.  A candidate of the merged list is [hyp, score, tag];  *)
(* tag is a history field naming the append that made it, which the code does *)
(* not keep and the sort does not read.                                       *)

Tag(kind, n_f, n_b, i_f, i_b) ==
    [kind |-> kind, n_f |-> n_f, n_b |-> n_b, i_f |-> i_f, i_b |-> i_b]

\* A forward seed that keeps the score of the <eos> step it drops.
SeedFwdLastScore(h, n) ==
    IF Len(h.hyp) > 1
    THEN <<[hyp |-> IF PyAt(h.hyp, -1) = eos
                    THEN PyPrefix(h.hyp, Len(h.hyp) - 1) ELSE h.hyp,
            score |-> PyAt(h.score, -1),
            tag |-> Tag("fwd", n, -1, -1, -1)]>>
    ELSE <<>>

\* A forward seed that keeps a hypothesis of one token, with its only score.
SeedFwdKeepsEosOnly(h, n) ==
    IF Len(h.hyp) > 1 /\ PyAt(h.hyp, -1) = eos
    THEN <<[hyp |-> PyPrefix(h.hyp, Len(h.hyp) - 1),
            score |-> PyAt(h.score, -2),
            tag |-> Tag("fwd", n, -1, -1, -1)]>>
    ELSE <<[hyp |-> h.hyp,
            score |-> PyAt(h.score, -1),
            tag |-> Tag("fwd", n, -1, -1, -1)]>>

\* A forward seed that keeps the <eos> its hypothesis ends with.
SeedFwdWhole(h, n) ==
    IF Len(h.hyp) > 1
    THEN <<[hyp |-> h.hyp,
            score |-> IF PyAt(h.hyp, -1) = eos THEN PyAt(h.score, -2) ELSE PyAt(h.score, -1),
            tag |-> Tag("fwd", n, -1, -1, -1)]>>
    ELSE <<>>

\* The forward hypothesis of rank n: dropped when it is <eos> only, without its
\* last token and that token's score when it ends with <eos>, whole otherwise.
SeedFwd(h, n) ==
    IF Len(h.hyp) > 1
    THEN IF PyAt(h.hyp, -1) = eos
         THEN <<[hyp |-> PyPrefix(h.hyp, Len(h.hyp) - 1),
                 score |-> PyAt(h.score, -2),
                 tag |-> Tag("fwd", n, -1, -1, -1)]>>
         ELSE <<[hyp |-> h.hyp,
                 score |-> PyAt(h.score, -1),
                 tag |-> Tag("fwd", n, -1, -1, -1)]>>
    ELSE <<>>

\* A backward seed that always takes the first cumulative score.
SeedBwdFirstScore(h, n) ==
    IF Len(h.hyp) > 1
    THEN <<[hyp |-> IF PyAt(h.hyp, 0) = eos THEN PySuffix(h.hyp, 1) ELSE h.hyp,
            score |-> PyAt(h.score, 0),
            tag |-> Tag("bwd", -1, n, -1, -1)]>>
    ELSE <<>>

\* The backward hypothesis of rank n: the same with <eos> at the front.
SeedBwd(h, n) ==
    IF Len(h.hyp) > 1
    THEN IF PyAt(h.hyp, 0) = eos
         THEN <<[hyp |-> PySuffix(h.hyp, 1),
                 score |-> PyAt(h.score, 1),
                 tag |-> Tag("bwd", -1, n, -1, -1)]>>
         ELSE <<[hyp |-> h.hyp,
                 score |-> PyAt(h.score, 0),
                 tag |-> Tag("bwd", -1, n, -1, -1)]>>
    ELSE <<>>

\* for n in range(nbest): the forward seed, then the backward seed of each rank.
RECURSIVE SeedLoop(_, _, _)
SeedLoop(it, nbest, n) ==
    IF n >= nbest THEN <<>>
    ELSE SeedFwd(it.fwd[n + 1], n) \o SeedBwd(it.bwd[n + 1], n)
         \o SeedLoop(it, nbest, n + 1)

\* The indices the search reads next to i_b and i_f: the backward step emitted
\* before i_b, the one emitted after it, and the forward step before i_f.
IdxPrev(i_b) == i_b + 1

IdxNext(i_b) == i_b - 1

IdxBefore(i_f) == i_f - 1

t_prev(b, i_b) == PyAt(b.aw, IdxPrev(i_b))

t_curr(f, i_f) == PyAt(f.aw, i_f)

t_next(b, i_b) == PyAt(b.aw, IdxNext(i_b))

\* A splice condition that compares the tokens only.
SpliceCondTokenOnly(f, b, i_f, i_b) == PyAt(f.hyp, i_f) = PyAt(b.hyp, i_b)

\* "the same token at the same time"
SpliceCond(f, b, i_f, i_b) ==
    /\ t_curr(f, i_f) >= t_prev(b, i_b)
    /\ t_curr(f, i_f) <= t_next(b, i_b)
    /\ PyAt(f.hyp, i_f) = PyAt(b.hyp, i_b)

Max(x, y) == IF x >= y THEN x ELSE y

\* A splice that takes the matched token from both sides.
NewHypMatchedTwice(f, b, i_f, i_b) == PyPrefix(f.hyp, i_f + 1) \o PySuffix(b.hyp, i_b)

NewHyp(f, b, i_f, i_b) == PyPrefix(f.hyp, i_f + 1) \o PySuffix(b.hyp, i_b + 1)

NewScore(f, b, i_f, i_b) ==
    LET score_curr_fwd == PyAt(f.score, i_f) - PyAt(f.score, IdxBefore(i_f))
        score_curr_bwd == PyAt(b.score, i_b) - PyAt(b.score, IdxPrev(i_b))
        score_curr == Max(score_curr_fwd, score_curr_bwd)
    IN  PyAt(f.score, IdxBefore(i_f)) + PyAt(b.score, IdxPrev(i_b)) + score_curr

\* The body of the innermost loop: the candidate appended at (n_f, n_b, i_f, i_b).
SpliceAt(f, b, n_f, n_b, i_f, i_b) ==
    IF SpliceCond(f, b, i_f, i_b)
    THEN <<[hyp |-> NewHyp(f, b, i_f, i_b),
            score |-> NewScore(f, b, i_f, i_b),
            tag |-> Tag("splice", n_f, n_b, i_f, i_b)]>>
    ELSE <<>>

\* for i_b in range(len(aws_bwd[b][n_b]) - 1)
RECURSIVE LoopIb(_, _, _, _, _, _)
LoopIb(f, b, n_f, n_b, i_f, i_b) ==
    IF i_b >= Len(b.aw) - 1 THEN <<>>
    ELSE SpliceAt(f, b, n_f, n_b, i_f, i_b) \o LoopIb(f, b, n_f, n_b, i_f, i_b + 1)

\* for i_f in range(len(aws_fwd[b][n_f]) - 1)
RECURSIVE LoopIf(_, _, _, _, _)
LoopIf(f, b, n_f, n_b, i_f) ==
    IF i_f >= Len(f.aw) - 1 THEN <<>>
    ELSE LoopIb(f, b, n_f, n_b, i_f, 0) \o LoopIf(f, b, n_f, n_b, i_f + 1)

\* for n_b in range(nbest)
RECURSIVE LoopNb(_, _, _, _)
LoopNb(it, nbest, n_f, n_b) ==
    IF n_b >= nbest THEN <<>>
    ELSE LoopIf(it.fwd[n_f + 1], it.bwd[n_b + 1], n_f, n_b, 0)
         \o LoopNb(it, nbest, n_f, n_b + 1)

\* for n_f in range(nbest)
RECURSIVE LoopNf(_, _, _)
LoopNf(it, nbest, n_f) ==
    IF n_f >= nbest THEN <<>>
    ELSE LoopNb(it, nbest, n_f, 0) \o LoopNf(it, nbest, n_f + 1)

\* merged as it stands before the sort: the seeds, then the spliced candidates.
Merged(it, nbest) == SeedLoop(it, nbest, 0) \o LoopNf(it, nbest, 0)

\* A sort that puts the later of two equal scores first.
SortMergedLastFirst(m) ==
    Values(PySortedReverse([i \in 1..Len(m) |->
        [k |-> m[Len(m) + 1 - i].score, v |-> m[Len(m) + 1 - i]]]))

\* merged = sorted(merged, key=lambda x: x['score'], reverse=True)
SortMerged(m) ==
    Values(PySortedReverse([i \in 1..Len(m) |-> [k |-> m[i].score, v |-> m[i]]]))

\* The selection of a pass that raised before it selected.
NoCand == [hyp |-> <<>>, score |-> 0, tag |-> Tag("none", -1, -1, -1, -1)]

\* best_hyps.append(merged[0]['hyp']): merged[0] of an empty list raises
\* IndexError.  cands is the list before the sort, merged after it.
PickBest(cands, merged) ==
    IF merged = <<>>
    THEN [err |-> "IndexError", cands |-> cands, best |-> NoCand]
    ELSE [err |-> "none", cands |-> cands, best |-> merged[1]]

Select(cands) == PickBest(cands, SortMerged(cands))

\* One pass of the loop over b.  Reading rank n of an item that has fewer than
\* nbest hypotheses raises IndexError.
FuseItem(it, nbest) ==
    IF nbest > Len(it.fwd) \/ nbest > Len(it.bwd)
    THEN [err |-> "IndexError", cands |-> <<>>, best |-> NoCand]
    ELSE Select(Merged(it, nbest))

\* The passes of the loop over b, up to the first that raises.
RECURSIVE Passes(_, _, _), Continue(_, _, _, _)
Passes(batch, nbest, b) ==
    IF b > Len(batch) THEN <<>>
    ELSE Continue(FuseItem(batch[b], nbest), batch, nbest, b)

Continue(res, batch, nbest, b) ==
    IF res.err # "none" THEN <<res>>
    ELSE <<res>> \o Passes(batch, nbest, b + 1)

\* What the call raises or returns after these passes.
Outcome(batch, items) ==
    IF items[Len(items)].err # "none"
    THEN [err |-> items[Len(items)].err, best_hyps |-> NoHyps, items |-> items]
    ELSE [err |-> "none",
          best_hyps |-> [b \in 1..Len(items) |-> items[b].best.hyp],
          items |-> items]

\* A call whose candidate list is not emptied between the items.
RECURSIVE MergedUpTo(_, _, _)
MergedUpTo(batch, nbest, b) ==
    IF b = 0 THEN <<>>
    ELSE MergedUpTo(batch, nbest, b - 1)
         \o (IF nbest > Len(batch[b].fwd) \/ nbest > Len(batch[b].bwd) THEN <<>>
             ELSE Merged(batch[b], nbest))

FuseBatchMergedKept(batch) ==
    Outcome(batch, [b \in 1..Len(batch) |->
                       Select(MergedUpTo(batch, Len(batch[1].fwd), b))])

\* The hypotheses of the call: nbest is read off the first item; the first item
\* that raises ends the call and nothing is returned.  items keeps each pass made.
FuseBatch(batch) == Outcome(batch, Passes(batch, Len(batch[1].fwd), 1))

(* The records the call hands to logger.info, in order.  A record is          *)
(* [msg, b, hyp, val]: the message, the batch item, the token ids logged or   *)
(* given to idx2token, and the score logged.                                  *)

LogRec(msg, b, hyp, val) == [msg |-> msg, b |-> b, hyp |-> hyp, val |-> val]

\* logger.info(hypothesis) of a hypothesis that is <eos> only.
EosOnlyLog(h, b) ==
    IF Len(h.hyp) > 1 THEN <<>> ELSE <<LogRec("hyp", b, h.hyp, 0)>>

\* The records of the seeding loop, which stops at a rank the item does not have.
RECURSIVE SeedLog(_, _, _, _)
SeedLog(it, nbest, n, b) ==
    IF n >= nbest \/ n >= Len(it.fwd) THEN <<>>
    ELSE EosOnlyLog(it.fwd[n + 1], b)
         \o (IF n >= Len(it.bwd) THEN <<>>
             ELSE EosOnlyLog(it.bwd[n + 1], b) \o SeedLog(it, nbest, n + 1, b))

\* The records logged when candidate c is spliced from f and bw: the texts of
\* the hypotheses when idx2token is given, the reference too when refs is.
SpliceLog(f, bw, c, b, idx2token, refs) ==
    <<LogRec("time matching", b, <<>>, 0)>>
    \o (IF idx2token # "None"
        THEN (IF refs # "None" THEN <<LogRec("Ref", b, <<>>, 0)>> ELSE <<>>)
             \o <<LogRec("hyp (fwd)", b, f.hyp, 0),
                  LogRec("hyp (bwd)", b, bw.hyp, 0),
                  LogRec("hyp (fwd-bwd)", b, c.hyp, 0)>>
        ELSE <<>>)
    \o <<LogRec("log prob (fwd)", b, <<>>, PyAt(f.score, -1)),
         LogRec("log prob (bwd)", b, <<>>, PyAt(bw.score, 0)),
         LogRec("log prob (fwd-bwd)", b, <<>>, c.score)>>

\* The records of the cross-splice search of one item, from its candidates on.
RECURSIVE SearchLog(_, _, _, _, _, _)
SearchLog(it, cands, i, b, idx2token, refs) ==
    IF i > Len(cands) THEN <<>>
    ELSE (IF cands[i].tag.kind = "splice"
          THEN SpliceLog(it.fwd[cands[i].tag.n_f + 1], it.bwd[cands[i].tag.n_b + 1],
                         cands[i], b, idx2token, refs)
          ELSE <<>>)
         \o SearchLog(it, cands, i + 1, b, idx2token, refs)

\* The records of the passes made.
RECURSIVE CallLog(_, _, _, _, _, _)
CallLog(batch, items, nbest, b, idx2token, refs) ==
    IF b > Len(items) THEN <<>>
    ELSE SeedLog(batch[b], nbest, 0, b - 1)
         \o SearchLog(batch[b], items[b].cands, 1, b - 1, idx2token, refs)
         \o CallLog(batch, items, nbest, b + 1, idx2token, refs)

\* A call that appends a spliced candidate only where it logs the texts.
LoggedAppendWithTexts(batch, out, idx2token, refs) ==
    LET nbest == Len(batch[1].fwd)
        o == IF idx2token # "None" THEN out
             ELSE Outcome(batch, [b \in 1..Len(batch) |->
                                     Select(SeedLoop(batch[b], nbest, 0))])
    IN  [err |-> o.err, best_hyps |-> o.best_hyps, items |-> o.items,
         log |-> CallLog(batch, o.items, nbest, 1, idx2token, refs)]

\* The call whose hypotheses are out, with what it logged.  idx2token and refs
\* are "None" or given; they reach nothing but the logger.
Logged(batch, out, idx2token, refs) ==
    [err |-> out.err, best_hyps |-> out.best_hyps, items |-> out.items,
     log |-> CallLog(batch, out.items, Len(batch[1].fwd), 1, idx2token, refs)]

\* The whole call: what it returns or raises, and what it logged.
FwdBwdAttention(batch, idx2token, refs) ==
    Logged(batch, FuseBatch(batch), idx2token, refs)

-----------------------------------------------------------------------------
(* Seq2seq.decode *)

\* A direction that is forward only when the forward weight is the larger one.
DirStrict(c, task) ==
    LET d == IF fwd_weight(c) > c.bwd_weight THEN "fwd" ELSE "bwd"
    IN  CASE task = "ys" -> d
          [] task = "ys_sub1" -> IF d = "fwd" THEN "fwd_sub1" ELSE "bwd_sub1"
          [] task = "ys_sub2" -> IF d = "fwd" THEN "fwd_sub2" ELSE "bwd_sub2"

\* dir: the direction with the larger weight, then the sub-task's suffix.
Dir(c, task) ==
    LET d == IF fwd_weight(c) >= c.bwd_weight THEN "fwd" ELSE "bwd"
    IN  CASE task = "ys" -> d
          [] task = "ys_sub1" -> IF d = "fwd" THEN "fwd_sub1" ELSE "bwd_sub1"
          [] task = "ys_sub2" -> IF d = "fwd" THEN "fwd_sub2" ELSE "bwd_sub2"

\* 'dec_' + dir
DecName(dir) ==
    CASE dir = "fwd" -> "dec_fwd"
      [] dir = "bwd" -> "dec_bwd"
      [] dir = "fwd_sub1" -> "dec_fwd_sub1"
      [] dir = "bwd_sub1" -> "dec_bwd_sub1"
      [] dir = "fwd_sub2" -> "dec_fwd_sub2"
      [] dir = "bwd_sub2" -> "dec_bwd_sub2"

\* 'rnnlm_' + dir
RnnlmName(dir) ==
    CASE dir = "fwd" -> "rnnlm_fwd"
      [] dir = "bwd" -> "rnnlm_bwd"
      [] dir = "fwd_sub1" -> "rnnlm_fwd_sub1"
      [] dir = "bwd_sub1" -> "rnnlm_bwd_sub1"
      [] dir = "fwd_sub2" -> "rnnlm_fwd_sub2"
      [] dir = "bwd_sub2" -> "rnnlm_bwd_sub2"

\* One operation invoked on a collaborator: obj.op(enc_out[enc]..., args).
Call(op, obj, enc, args) == [op |-> op, obj |-> obj, enc |-> enc, args |-> args]

\* A language-model check that looks for the main task's model of the
\* direction, whatever the task.
RnnlmMissingMainOnly(c, r, dir) ==
    /\ r.params.rnnlm_weight > 0
    /\ (IF dir \in {"fwd", "fwd_sub1", "fwd_sub2"} THEN "rnnlm_fwd" ELSE "rnnlm_bwd")
          \notin c.rnnlms

\* decode_params['rnnlm_weight'] > 0 and the assertion hasattr(self, 'rnnlm_' +
\* dir) fails.
RnnlmMissing(c, r, dir) ==
    r.params.rnnlm_weight > 0 /\ RnnlmName(dir) \notin c.rnnlms

\* The guard of the CTC branch.
CtcBranch(c, r) == c.ctc_weight = WeightOne \/ (c.ctc_weight > 0 /\ r.ctc)

\* A greedy guard that looks at the beam width alone.
GreedyBranchWidthOnly(r) == r.params.beam_width = 1

\* The guard of the greedy branch.
GreedyBranch(r) == r.params.beam_width = 1 /\ ~r.params.fwd_bwd_attention

\* What a decoder returns for the encoded batch: row k is decoded from row k of
\* the encoded tensor, which the encoder made of input item rows[k].  src is
\* that item's index, a history field.
Rows(rows, hyps, by) ==
    [k \in 1..Len(rows) |-> [src |-> rows[k], hyp |-> hyps[k], by |-> by]]

\* The output of operation op of decoder obj, its tokens left open.
Decoded(rows, obj, op) == Rows(rows, [k \in 1..Len(rows) |-> <<>>], <<obj, op>>)

\* Fused beam searches of which the backward one is given the caller's nbest and
\* exclude_eos.
FusedBeamArgsByDir(r, d) ==
    [params |-> r.params, rnnlm |-> None,
     nbest |-> IF d = "bwd" THEN r.nbest ELSE r.params.beam_width,
     exclude_eos |-> IF d = "bwd" THEN "exclude_eos" ELSE "False",
     idx2token |-> "idx2token", refs |-> "refs"]

\* The arguments of the beam search of direction d in the fused branch, after
\* the encoded tensor and its lengths.
FusedBeamArgs(r, d) ==
    [params |-> r.params, rnnlm |-> None, nbest |-> r.params.beam_width,
     exclude_eos |-> "False", idx2token |-> "idx2token", refs |-> "refs"]

\* fus_out of a call that never reached fwd_bwd_attention.
NoFusion == [err |-> "none", best_hyps |-> <<>>, items |-> <<>>, log |-> <<>>]

\* What the call leaves behind when it raises.
Raised(perm, cs, p, e) ==
    [perm_idx |-> perm, calls |-> cs, path |-> p, best_hyps |-> NoHyps,
     aws |-> NoAws, err |-> e, ret |-> 0, fus_in |-> <<>>, fus_out |-> NoFusion]

\* What the call leaves behind when it returns a tuple of ret values.
Returned(perm, cs, p, hyps, a, n) ==
    [perm_idx |-> perm, calls |-> cs, path |-> p, best_hyps |-> hyps, aws |-> a,
     err |-> "none", ret |-> n, fus_in |-> <<>>, fus_out |-> NoFusion]

\* decode on configuration c with request r; beams[k] is what the two beam
\* searches of the fused branch find for row k of the encoded batch.
DecodeOutcome(c, r, beams) ==
    LET perm == EncodePerm(r.xs)
        task == r.task
        dir == Dir(c, task)
        dec == DecName(dir)
        rows == EncRows(r.xs, perm)
        enc == EncodeCall(c, task)
    IN  IF BridgeMissing(c, task)
        THEN Raised(perm, enc, "encode", "AttributeError")
        ELSE IF CtcBranch(c, r)
        THEN IF RnnlmMissing(c, r, dir)
             THEN Raised(perm, enc, "ctc", "AssertionError")
             ELSE IF dec \notin Decoders(c)
             THEN Raised(perm, enc, "ctc", "AttributeError")
             ELSE LET rnnlm == IF r.params.rnnlm_weight > 0
                               THEN RnnlmName(dir) ELSE None
                      cs == enc \o <<Call("decode_ctc", dec, task,
                                          [beam_width |-> r.params.beam_width,
                                           rnnlm |-> rnnlm])>>
                  IN  Returned(perm, cs, "ctc", Decoded(rows, dec, "decode_ctc"),
                               NoAws, 3)
        ELSE IF GreedyBranch(r)
        THEN IF dec \notin Decoders(c)
             THEN Raised(perm, enc, "greedy", "AttributeError")
             ELSE LET cs == enc \o <<Call("greedy", dec, task,
                                          [max_len_ratio |-> "max_len_ratio",
                                           exclude_eos |-> "exclude_eos"])>>
                  IN  Returned(perm, cs, "greedy", Decoded(rows, dec, "greedy"),
                               Decoded(rows, dec, "greedy"), 3)
        ELSE IF r.params.fwd_bwd_attention
        THEN LET c_fwd == Call("beam_search", "dec_fwd", task, FusedBeamArgs(r, "fwd"))
                 c_bwd == Call("beam_search", "dec_bwd", task, FusedBeamArgs(r, "bwd"))
                 out == FwdBwdAttention(beams, "idx2token", "refs")
                 c_fus == Call("fwd_bwd_attention", "module", task,
                               [fwd |-> "dec_fwd", bwd |-> "dec_bwd",
                                idx2token |-> "idx2token", refs |-> "refs"])
             IN  IF "dec_fwd" \notin Decoders(c)
                 THEN Raised(perm, enc, "fused", "AttributeError")
                 ELSE IF "dec_bwd" \notin Decoders(c)
                 THEN Raised(perm, enc \o <<c_fwd>>, "fused", "AttributeError")
                 ELSE IF out.err # "none"
                 THEN [Raised(perm, enc \o <<c_fwd, c_bwd, c_fus>>, "fused", out.err)
                       EXCEPT !.fus_in = beams, !.fus_out = out]
                 ELSE [Returned(perm, enc \o <<c_fwd, c_bwd, c_fus>>, "fused",
                                Rows(rows, out.best_hyps,
                                     <<"module", "fwd_bwd_attention">>), NoAws, 3)
                       EXCEPT !.fus_in = beams, !.fus_out = out]
        ELSE IF RnnlmMissing(c, r, dir)
        THEN Raised(perm, enc, "beam", "AssertionError")
        ELSE IF dec \notin Decoders(c)
        THEN Raised(perm, enc, "beam", "AttributeError")
        ELSE LET rnnlm == IF r.params.rnnlm_weight > 0 THEN RnnlmName(dir) ELSE None
                 cs == enc \o <<Call("beam_search", dec, task,
                                     [params |-> r.params, rnnlm |-> rnnlm,
                                      nbest |-> r.nbest,
                                      exclude_eos |-> "exclude_eos",
                                      idx2token |-> "idx2token",
                                      refs |-> "refs"])>>
             IN  IF r.nbest = 1
                 THEN Returned(perm, cs, "beam", Decoded(rows, dec, "beam_search[0]"),
                               Decoded(rows, dec, "beam_search[0]"), 3)
                 ELSE Returned(perm, cs, "beam", Decoded(rows, dec, "beam_search"),
                               Decoded(rows, dec, "beam_search"), 4)

\* The CTC weight get_ctc_posteriors asserts to be positive: that of the task.
CtcWeightOf(c, task) ==
    CASE task = "ys" -> c.ctc_weight
      [] task = "ys_sub1" -> c.ctc_weight_sub1
      [] task = "ys_sub2" -> c.ctc_weight_sub2

\* get_ctc_posteriors on configuration c for batch xs and a task.
CtcPosteriorsOutcome(c, xs, task) ==
    LET perm == EncodePerm(xs)
        dec == DecName(Dir(c, task))
        enc == EncodeCall(c, task)
    IN  IF BridgeMissing(c, task)
        THEN Raised(perm, enc, "encode", "AttributeError")
        ELSE IF CtcWeightOf(c, task) <= 0
        THEN Raised(perm, enc, "ctc_posteriors", "AssertionError")
        ELSE IF dec \notin Decoders(c)
        THEN Raised(perm, enc, "ctc_posteriors", "AttributeError")
        ELSE Returned(perm,
                      enc \o <<Call("ctc_posteriors", dec, task,
                                    [temperature |-> "temperature", topk |-> "topk"])>>,
                      "ctc_posteriors", NoHyps, NoAws, 3)

\* The decoders _forward calls for a task, in order: the forward main decoder
\* for the main task, the backward main decoder whatever the task, then each
\* sub-task's decoder, with mtl_per_batch for that sub-task's batches only.
ForwardDecoders(c, task) ==
    (IF fwd_weight(c) > 0 /\ task = "ys" THEN <<"dec_fwd">> ELSE <<>>)
    \o (IF c.bwd_weight > 0 THEN <<"dec_bwd">> ELSE <<>>)
    \o (IF (c.sub1_weight > 0 /\ ~c.mtl_per_batch) \/ (c.mtl_per_batch /\ task = "ys_sub1")
        THEN <<"dec_fwd_sub1">> ELSE <<>>)
    \o (IF (c.sub2_weight > 0 /\ ~c.mtl_per_batch) \/ (c.mtl_per_batch /\ task = "ys_sub2")
        THEN <<"dec_fwd_sub2">> ELSE <<>>)

\* The encoded tensor a decoder of _forward is given.
ForwardEnc(dec) ==
    CASE dec = "dec_fwd" -> "ys"
      [] dec = "dec_bwd" -> "ys"
      [] dec = "dec_fwd_sub1" -> "ys_sub1"
      [] dec = "dec_fwd_sub2" -> "ys_sub2"

\* The labels a decoder of _forward is given: ys, or without mtl_per_batch the
\* sub-task's own labels.
ForwardLabels(c, dec) ==
    IF c.mtl_per_batch THEN "ys"
    ELSE CASE dec = "dec_fwd" -> "ys"
           [] dec = "dec_bwd" -> "ys"
           [] dec = "dec_fwd_sub1" -> "ys_sub1"
           [] dec = "dec_fwd_sub2" -> "ys_sub2"

\* The decoder calls of _forward up to the first decoder that was not built.
RECURSIVE ForwardCalls(_, _, _)
ForwardCalls(c, decs, i) ==
    IF i > Len(decs) \/ decs[i] \notin Decoders(c) THEN <<>>
    ELSE <<Call("forward", decs[i], ForwardEnc(decs[i]),
                [ys |-> ForwardLabels(c, decs[i])])>>
         \o ForwardCalls(c, decs, i + 1)

\* _forward on configuration c for batch xs and a task, the inputs being speech.
ForwardOutcome(c, xs, task) ==
    LET perm == EncodePerm(xs)
        enc_task == IF c.mtl_per_batch THEN task ELSE "all"
        enc == EncodeCall(c, enc_task)
        decs == ForwardDecoders(c, task)
        cs == ForwardCalls(c, decs, 1)
    IN  IF BridgeMissing(c, enc_task)
        THEN Raised(perm, enc, "encode", "AttributeError")
        ELSE IF Len(cs) < Len(decs)
        THEN Raised(perm, enc \o cs, "forward", "AttributeError")
        ELSE Returned(perm, enc \o cs, "forward", NoHyps, NoAws, 2)

-----------------------------------------------------------------------------
(* The decoders' n-best sets *)

RECURSIVE Sum(_, _, _)
Sum(d, lo, hi) == IF lo > hi THEN 0 ELSE d[lo] + Sum(d, lo + 1, hi)

\* Cumulative log-probabilities of a forward hypothesis whose steps cost d.
CumFwd(d) == [i \in 1..Len(d) |-> 0 - Sum(d, 1, i)]

\* The same for a backward hypothesis, which is emitted last token first and
\* handed over reversed: the score at i covers the tokens from i to the end.
CumBwd(d) == [i \in 1..Len(d) |-> 0 - Sum(d, i, Len(d))]

FwdHyp(t, a, d) == [hyp |-> t, aw |-> a, score |-> CumFwd(d)]

BwdHyp(t, a, d) == [hyp |-> t, aw |-> a, score |-> CumBwd(d)]

Const(L, x) == [i \in 1..L |-> x]

\* The items the beam searches of decode's fused branch return for one row, with
\* n hypotheses a direction: the hypotheses [5,6,2] and [2,6,5] at every rank, or
\* <eos> alone at every rank.
BeamItems(n) ==
    {[fwd |-> Const(n, FwdHyp(<<5, 6, eos>>, <<0, 1, 1>>, <<1, 2, 1>>)),
      bwd |-> Const(n, BwdHyp(<<eos, 6, 5>>, <<0, 0, 1>>, <<1, 2, 1>>))],
     [fwd |-> Const(n, FwdHyp(<<eos>>, <<0>>, <<1>>)),
      bwd |-> Const(n, BwdHyp(<<eos>>, <<0>>, <<1>>))]}

-----------------------------------------------------------------------------
(* State machine: one call on a constructed model *)

Batches == UNION {[1..B -> ItemLens] : B \in 1..MaxBatch}

Requests ==
    [xs : Batches,
     params : [beam_width : {1, 2}, fwd_bwd_attention : BOOLEAN,
               rnnlm_weight : {0, 1}],
     nbest : {1, 2},
     ctc : BOOLEAN,
     task : Tasks]

NoReq == [xs |-> <<>>]

Idle ==
    /\ req = NoReq
    /\ perm_idx = <<>>
    /\ calls = <<>>
    /\ path = "idle"
    /\ best_hyps = NoHyps
    /\ aws = NoAws
    /\ err = "none"
    /\ fus_in = <<>>
    /\ fus_out = NoFusion

Init ==
    /\ cfg \in Configs
    /\ Idle

\* What the beam searches of the fused branch may return for the batch; nothing
\* when the call takes another branch.
BeamsFor(c, r) ==
    IF ~CtcBranch(c, r) /\ ~GreedyBranch(r) /\ r.params.fwd_bwd_attention
    THEN [1..Len(r.xs) -> BeamItems(r.params.beam_width)]
    ELSE {<<>>}

\* model.decode(xs, decode_params, nbest, exclude_eos, idx2token, refs, ctc, task)
Decode ==
    /\ path = "idle"
    /\ \E r \in Requests :
         \E beams \in BeamsFor(cfg, r) :
            \E o \in {DecodeOutcome(cfg, r, beams)} :
                /\ req' = r
                /\ perm_idx' = o.perm_idx
                /\ calls' = o.calls
                /\ path' = o.path
                /\ best_hyps' = o.best_hyps
                /\ aws' = o.aws
                /\ err' = o.err
                /\ fus_in' = o.fus_in
                /\ fus_out' = o.fus_out
    /\ UNCHANGED cfg

\* model.encode(xs, task)
Encode ==
    /\ path = "idle"
    /\ \E xs \in Batches, task \in Tasks \cup {"all"} :
         /\ req' = [xs |-> xs, task |-> task]
         /\ perm_idx' = EncodePerm(xs)
         /\ calls' = EncodeCall(cfg, task)
         /\ path' = "encode"
         /\ err' = IF BridgeMissing(cfg, task) THEN "AttributeError" ELSE "none"
    /\ UNCHANGED <<cfg, best_hyps, aws, fus_in, fus_out>>

\* model.get_ctc_posteriors(xs, task, temperature, topk)
GetCtcPosteriors ==
    /\ path = "idle"
    /\ \E xs \in Batches, task \in Tasks :
         \E o \in {CtcPosteriorsOutcome(cfg, xs, task)} :
            /\ req' = [xs |-> xs, task |-> task]
            /\ perm_idx' = o.perm_idx
            /\ calls' = o.calls
            /\ path' = o.path
            /\ err' = o.err
    /\ UNCHANGED <<cfg, best_hyps, aws, fus_in, fus_out>>

\* model.forward(xs, ys, ys_sub1, ys_sub2, reporter, task, is_eval)
Forward ==
    /\ path = "idle"
    /\ \E xs \in Batches, task \in Tasks :
         \E o \in {ForwardOutcome(cfg, xs, task)} :
            /\ req' = [xs |-> xs, task |-> task]
            /\ perm_idx' = o.perm_idx
            /\ calls' = o.calls
            /\ path' = o.path
            /\ err' = o.err
    /\ UNCHANGED <<cfg, best_hyps, aws, fus_in, fus_out>>

Next == Decode \/ Encode \/ GetCtcPosteriors \/ Forward

Spec == Init /\ [][Next]_vars

-----------------------------------------------------------------------------
(* State machine: one call of encode, over the encoder setups *)

InitEncode ==
    /\ cfg \in EncodeConfigs
    /\ Idle

NextEncode == Encode

SpecEncode == InitEncode /\ [][NextEncode]_vars

-----------------------------------------------------------------------------
(* State machine: one call of fwd_bwd_attention *)

\* One item with one hypothesis a direction, of Lf and Lb tokens, with any
\* tokens, alignments and scores.
DeepBatches(Lf, Lb) ==
    {<<[fwd |-> <<FwdHyp(tf, af, df)>>, bwd |-> <<BwdHyp(tb, ab, db)>>]>> :
        tf \in [1..Lf -> Tokens], af \in [1..Lf -> Steps], df \in [1..Lf -> Drops],
        tb \in [1..Lb -> Tokens], ab \in [1..Lb -> Steps], db \in [1..Lb -> Drops]}

\* The hypotheses of the items with two ranks: <eos> alone, or two tokens of
\* which <eos> can only be the terminal one, every step attending to timestep 0.
ShortFwd ==
    {FwdHyp(<<eos>>, <<0>>, <<1>>)}
    \cup {FwdHyp(t, <<0, 0>>, d) : t \in {<<5, eos>>, <<5, 5>>}, d \in [1..2 -> Drops]}

ShortBwd ==
    {BwdHyp(<<eos>>, <<0>>, <<1>>)}
    \cup {BwdHyp(t, <<0, 0>>, d) : t \in {<<eos, 5>>, <<5, 5>>}, d \in [1..2 -> Drops]}

\* One item with two hypotheses a direction.
WideBatches ==
    {<<[fwd |-> f, bwd |-> b]>> : f \in [1..2 -> ShortFwd], b \in [1..2 -> ShortBwd]}

\* The hypotheses of the items of a batch of two: at most two tokens, every
\* step attending to timestep 0 and costing 1.
UnitFwd ==
    UNION {{FwdHyp(t, Const(L, 0), Const(L, 1)) : t \in [1..L -> Tokens]} : L \in {1, 2}}

UnitBwd ==
    UNION {{BwdHyp(t, Const(L, 0), Const(L, 1)) : t \in [1..L -> Tokens]} : L \in {1, 2}}

\* A batch of two items with one hypothesis a direction.
PairBatches ==
    [1..2 -> {[fwd |-> <<f>>, bwd |-> <<b>>] : f \in UnitFwd, b \in UnitBwd}]

\* One item with one hypothesis of three tokens a direction, any tokens and
\* alignments, every step costing 1: the cross-splice search visits steps past
\* the first on both sides.
TripleBatches ==
    {<<[fwd |-> <<FwdHyp(tf, af, Const(3, 1))>>, bwd |-> <<BwdHyp(tb, ab, Const(3, 1))>>]>> :
        tf \in [1..3 -> Tokens], af \in [1..3 -> Steps],
        tb \in [1..3 -> Tokens], ab \in [1..3 -> Steps]}

\* The configuration is of no account to fwd_bwd_attention, a module function.
InitFusion ==
    /\ cfg = [ctc_weight |-> 0, ctc_weight_sub1 |-> 0, ctc_weight_sub2 |-> 0,
              bwd_weight |-> 5, sub1_weight |-> 0, sub2_weight |-> 0,
              mtl_per_batch |-> FALSE, dict_sub1 |-> TRUE, dict_sub2 |-> TRUE,
              rnnlms |-> {}]
    /\ req = NoReq
    /\ perm_idx = <<>>
    /\ calls = <<>>
    /\ path = "idle"
    /\ best_hyps = NoHyps
    /\ aws = NoAws
    /\ err = "none"
    /\ \/ \E Lf \in HypLens, Lb \in HypLens :
             /\ Lf + Lb <= MaxTokens
             /\ fus_in \in DeepBatches(Lf, Lb)
       \/ fus_in \in WideBatches
       \/ fus_in \in PairBatches
       \/ fus_in \in TripleBatches
    /\ fus_out = NoFusion

\* fwd_bwd_attention(nbest_hyps_fwd, aws_fwd, scores_fwd,
\*                   nbest_hyps_bwd, aws_bwd, scores_bwd)
\* with idx2token and refs left at their default, None.
Fuse ==
    /\ path = "idle"
    /\ \E out \in {FwdBwdAttention(fus_in, "None", "None")} :
          /\ fus_out' = out
          /\ err' = out.err
          /\ best_hyps' = out.best_hyps
    /\ path' = "fwd_bwd_attention"
    /\ UNCHANGED <<cfg, req, perm_idx, calls, aws, fus_in>>

NextFusion == Fuse

SpecFusion == InitFusion /\ [][NextFusion]_vars

-----------------------------------------------------------------------------
(* State machine: one call of fwd_bwd_attention with any diagnostic arguments *)

\* The n-best sets of these calls: one item of two ranks, two items, or one item
\* with hypotheses of three tokens.
InitDiagnostics ==
    /\ cfg = [ctc_weight |-> 0, ctc_weight_sub1 |-> 0, ctc_weight_sub2 |-> 0,
              bwd_weight |-> 5, sub1_weight |-> 0, sub2_weight |-> 0,
              mtl_per_batch |-> FALSE, dict_sub1 |-> TRUE, dict_sub2 |-> TRUE,
              rnnlms |-> {}]
    /\ req = NoReq
    /\ perm_idx = <<>>
    /\ calls = <<>>
    /\ path = "idle"
    /\ best_hyps = NoHyps
    /\ aws = NoAws
    /\ err = "none"
    /\ \/ fus_in \in WideBatches
       \/ fus_in \in PairBatches
       \/ fus_in \in TripleBatches
    /\ fus_out = NoFusion

\* fwd_bwd_attention(nbest_hyps_fwd, aws_fwd, scores_fwd,
\*                   nbest_hyps_bwd, aws_bwd, scores_bwd, idx2token, refs)
FuseWithDiagnostics ==
    /\ path = "idle"
    /\ \E idx2token \in {"None", "idx2token"}, refs \in {"None", "refs"} :
       \E out \in {FwdBwdAttention(fus_in, idx2token, refs)} :
          /\ fus_out' = out
          /\ err' = out.err
          /\ best_hyps' = out.best_hyps
    /\ path' = "fwd_bwd_attention"
    /\ UNCHANGED <<cfg, req, perm_idx, calls, aws, fus_in>>

NextDiagnostics == FuseWithDiagnostics

SpecDiagnostics == InitDiagnostics /\ [][NextDiagnostics]_vars

-----------------------------------------------------------------------------
(* State machine: one call of fwd_bwd_attention on n-best sets whose items    *)
(* differ in size                                                             *)

\* The hypotheses of these items: <eos> alone or two tokens, every step
\* attending to timestep 0 and costing 1.
RaggedFwd == {FwdHyp(t, Const(Len(t), 0), Const(Len(t), 1)) : t \in {<<eos>>, <<5, eos>>, <<5, 5>>}}

RaggedBwd == {BwdHyp(t, Const(Len(t), 0), Const(Len(t), 1)) : t \in {<<eos>>, <<eos, 5>>}}

\* An item with one or two hypotheses in each direction.
RaggedItems ==
    UNION {[fwd : [1..nf -> RaggedFwd], bwd : [1..nb -> RaggedBwd]] :
              nf \in {1, 2}, nb \in {1, 2}}

\* A batch of two such items.
RaggedBatches == [1..2 -> RaggedItems]

InitRagged ==
    /\ cfg = [ctc_weight |-> 0, ctc_weight_sub1 |-> 0, ctc_weight_sub2 |-> 0,
              bwd_weight |-> 5, sub1_weight |-> 0, sub2_weight |-> 0,
              mtl_per_batch |-> FALSE, dict_sub1 |-> TRUE, dict_sub2 |-> TRUE,
              rnnlms |-> {}]
    /\ req = NoReq
    /\ perm_idx = <<>>
    /\ calls = <<>>
    /\ path = "idle"
    /\ best_hyps = NoHyps
    /\ aws = NoAws
    /\ err = "none"
    /\ fus_in \in RaggedBatches
    /\ fus_out = NoFusion

SpecRagged == InitRagged /\ [][NextFusion]_vars

-----------------------------------------------------------------------------
(* Claims *)

DecodePaths == {"ctc", "greedy", "fused", "beam"}

DecodeReturned == path \in DecodePaths /\ err = "none"

BatchSize == Len(req.xs)

\* C1 as stated: the hypotheses decode returns are in the caller's batch order,
\* the hypothesis at position i decoded from input item i.
C1_CallerOrder ==
    DecodeReturned => \A i \in 1..BatchSize : best_hyps[i].src = i - 1

\* C1 as amended: on every path, decode returns one entry per item in the order
\* encode sorted the batch into, the hypothesis at position i decoded from input
\* item perm_idx[i], and perm_idx is what orders the items by length.
C1_SortedOrder ==
    DecodeReturned =>
        /\ Len(best_hyps) = BatchSize
        /\ Len(perm_idx) = BatchSize
        /\ \A i \in 1..BatchSize : best_hyps[i].src = perm_idx[i]
        /\ \A i \in 1..BatchSize, j \in 1..BatchSize :
              i < j => req.xs[perm_idx[i] + 1] >= req.xs[perm_idx[j] + 1]

\* A fused decode of a batch whose second item is the longer one has returned.
C1_Witness ==
    /\ DecodeReturned
    /\ path = "fused"
    /\ req.xs = <<1, 2>>
    /\ best_hyps[1].src = 1

\* The CTC weight of the task a request names.
TaskCtcWeight ==
    CASE req.task = "ys" -> cfg.ctc_weight
      [] req.task = "ys_sub1" -> cfg.ctc_weight_sub1
      [] req.task = "ys_sub2" -> cfg.ctc_weight_sub2

\* The operations a call invoked on decoders and on the fusion routine.
DecoderCalls == {calls[k] : k \in 2..Len(calls)}

\* C2: when the CTC weight of the requested task is 1, decode invokes decode_ctc
\* on the routed decoder and nothing else.
C2_CtcOnlyForTask ==
    (path \in DecodePaths /\ TaskCtcWeight = WeightOne) =>
        \A c \in DecoderCalls : c.op = "decode_ctc"

FusionDone == path = "fwd_bwd_attention"

\* The pass fwd_bwd_attention made over batch item k, and that item.
Pass(k) == fus_out.items[k]

Item(k) == fus_in[k]

PassesMade == 1..Len(fus_out.items)

\* nbest as the routine reads it.
NBest == Len(fus_in[1].fwd)

\* The place of a seed in the order forward 0, backward 0, forward 1, ...
SeedOrder(t) == IF t.kind = "fwd" THEN 2 * t.n_f ELSE 2 * t.n_b + 1

\* Seeds come by rank, forward before backward, and before every splice.
InsertionOrder(c) ==
    \A i \in 1..Len(c), j \in 1..Len(c) :
        (i < j /\ c[j].tag.kind # "splice") =>
            /\ c[i].tag.kind # "splice"
            /\ SeedOrder(c[i].tag) < SeedOrder(c[j].tag)

TopScore(c, i) == \A j \in 1..Len(c) : c[j].score <= c[i].score

\* The first position of c that holds the maximum score.
FirstTop(c) ==
    CHOOSE i \in 1..Len(c) : TopScore(c, i) /\ \A j \in 1..(i - 1) : ~TopScore(c, j)

\* C3: for every batch item the selected hypothesis is the first candidate of
\* maximum score in insertion order, the seeds coming interleaved by rank
\* (forward before backward) and before all spliced candidates.
C3_FirstMaxWins ==
    FusionDone =>
        \A k \in PassesMade :
            /\ InsertionOrder(Pass(k).cands)
            /\ Pass(k).err = "none" =>
                  /\ Pass(k).best = Pass(k).cands[FirstTop(Pass(k).cands)]
                  /\ err = "none" => best_hyps[k] = Pass(k).best.hyp

\* A forward seed was selected over the backward seed of its rank and over a
\* spliced candidate, both of the same score.
C3_Witness ==
    /\ FusionDone
    /\ err = "none"
    /\ \E k \in PassesMade :
          LET c == Pass(k).cands
              best == Pass(k).best
          IN  /\ best.tag.kind = "fwd"
              /\ \E i \in 1..Len(c) : /\ c[i].tag.kind = "bwd"
                                      /\ c[i].tag.n_b = best.tag.n_f
                                      /\ c[i].score = best.score
                                      /\ c[i].hyp # best.hyp
              /\ \E j \in 1..Len(c) : /\ c[j].tag.kind = "splice"
                                      /\ c[j].score = best.score
                                      /\ c[j].hyp # best.hyp

\* t_prev <= t_curr <= t_next
TimeCond(f, b, i_f, i_b) ==
    /\ t_prev(b, i_b) <= t_curr(f, i_f)
    /\ t_curr(f, i_f) <= t_next(b, i_b)

\* The tuples (n_f, n_b, i_f, i_b) the cross-splice search visits on an item.
Visited(it) ==
    UNION {{<<n_f, n_b, i_f, i_b>> :
                i_f \in 0..(Len(it.fwd[n_f + 1].aw) - 2),
                i_b \in 0..(Len(it.bwd[n_b + 1].aw) - 2)} :
              n_f \in 0..(NBest - 1), n_b \in 0..(NBest - 1)}

\* Those of them where the time condition holds.
VisitedInTime(it) ==
    {t \in Visited(it) : TimeCond(it.fwd[t[1] + 1], it.bwd[t[2] + 1], t[3], t[4])}

\* Those of them where the two hypotheses have the same token.
VisitedSameToken(it) ==
    {t \in Visited(it) : it.fwd[t[1] + 1].hyp[t[3] + 1] = it.bwd[t[2] + 1].hyp[t[4] + 1]}

\* C4: when the time condition is false at every tuple the cross-splice search
\* visits on an item, no spliced candidate is in the item's list and the fused
\* output is the best-scoring seeded candidate.
C4_NoSpliceWithoutTime ==
    FusionDone =>
        \A k \in PassesMade :
            VisitedInTime(Item(k)) = {} =>
                /\ \A i \in 1..Len(Pass(k).cands) :
                      Pass(k).cands[i].tag.kind \in {"fwd", "bwd"}
                /\ Pass(k).err = "none" =>
                      /\ Pass(k).best.tag.kind \in {"fwd", "bwd"}
                      /\ \A i \in 1..Len(Pass(k).cands) :
                            Pass(k).cands[i].score <= Pass(k).best.score
                      /\ err = "none" => best_hyps[k] = Pass(k).best.hyp

\* The search visited tuples with the same token on both sides, none of them at
\* the same time, and the item's output is a seed.
C4_Witness ==
    /\ FusionDone
    /\ err = "none"
    /\ \E k \in PassesMade :
          /\ VisitedInTime(Item(k)) = {}
          /\ VisitedSameToken(Item(k)) # {}
          /\ Len(Pass(k).cands) = 2
          /\ best_hyps[k] = Pass(k).cands[2].hyp

\* Every hypothesis of the item, forward and backward, has length 1.
AllLengthOne(it) ==
    /\ \A n \in 1..Len(it.fwd) : Len(it.fwd[n].hyp) = 1
    /\ \A n \in 1..Len(it.bwd) : Len(it.bwd[n].hyp) = 1

\* C5: when every forward and every backward hypothesis of some batch item has
\* length 1, the fusion call fails with FusionError and returns nothing.
C5_FusionError ==
    (FusionDone /\ \E k \in 1..Len(fus_in) : AllLengthOne(Item(k))) =>
        /\ err = "FusionError"
        /\ best_hyps = NoHyps

\* C6: a forward hypothesis of more than one token is seeded once: without its
\* last token and with its second-to-last cumulative score when that token is
\* <eos>, whole and with its last cumulative score otherwise.
C6_ForwardTrim ==
    FusionDone =>
        \A k \in PassesMade : \A n \in 1..NBest :
            LET h == Item(k).fwd[n]
                L == Len(h.hyp)
                c == Pass(k).cands
                seeds == {i \in 1..Len(c) :
                            c[i].tag.kind = "fwd" /\ c[i].tag.n_f = n - 1}
            IN  L > 1 =>
                  /\ Cardinality(seeds) = 1
                  /\ \A i \in seeds :
                        IF h.hyp[L] = eos
                        THEN /\ c[i].hyp = SubSeq(h.hyp, 1, L - 1)
                             /\ c[i].score = h.score[L - 1]
                        ELSE /\ c[i].hyp = h.hyp
                             /\ c[i].score = h.score[L]

\* One item seeded a forward hypothesis that ends with <eos> and one that does
\* not, the dropped step having a score of its own.
C6_Witness ==
    /\ FusionDone
    /\ NBest = 2
    /\ LET f == Item(1).fwd
       IN  /\ Len(f[1].hyp) = 2 /\ f[1].hyp[2] = eos /\ f[1].score[2] # f[1].score[1]
           /\ Len(f[2].hyp) = 2 /\ f[2].hyp[2] # eos
    /\ \E i \in 1..Len(Pass(1).cands) : Pass(1).cands[i].tag = Tag("fwd", 0, -1, -1, -1)

\* encode has run, alone or inside decode.
EncodeDone == path \in DecodePaths \cup {"encode"}

\* The inverse of perm applied to ys: the entry perm put at j goes back to the
\* position perm[j] it came from.
Restore(ys, perm) ==
    [i \in 1..Len(ys) |-> ys[CHOOSE j \in 1..Len(perm) : perm[j] = i - 1]]

\* C7: perm_idx has exactly B entries and every index of 0..B-1 is in it exactly
\* once, so that a list reordered by perm_idx and then by the inverse is the
\* original list.
C7_PermBijection ==
    EncodeDone =>
        /\ Len(perm_idx) = BatchSize
        /\ \A i \in 0..(BatchSize - 1) :
              Cardinality({j \in 1..Len(perm_idx) : perm_idx[j] = i}) = 1
        /\ Restore(Reorder(req.xs, perm_idx), perm_idx) = req.xs
        /\ Restore(EncRows(req.xs, perm_idx), perm_idx)
              = [i \in 1..BatchSize |-> i - 1]

\* encode has reordered a batch of two items of one length and a longer third.
C7_Witness ==
    /\ path = "encode"
    /\ req.xs = <<1, 1, 2>>
    /\ perm_idx = <<2, 0, 1>>

\* C8: in the batch reordered by perm_idx the lengths never increase, and the
\* items of one length keep the order the caller gave them.
C8_StableDescending ==
    EncodeDone =>
        \A i \in 1..Len(perm_idx), j \in 1..Len(perm_idx) :
            i < j =>
                LET li == Reorder(req.xs, perm_idx)[i]
                    lj == Reorder(req.xs, perm_idx)[j]
                IN  /\ li >= lj
                    /\ li = lj => perm_idx[i] < perm_idx[j]

\* A batch whose first item is the shortest and whose other two tie was
\* reordered: the tying items lead, in the caller's order.
C8_Witness ==
    /\ EncodeDone
    /\ req.xs = <<1, 2, 2>>
    /\ perm_idx = <<1, 2, 0>>

\* The calls of the fused branch, in order.
FusedCallOps == <<"encode", "beam_search", "beam_search", "fwd_bwd_attention">>

FusedCallObjs == <<"self", "dec_fwd", "dec_bwd", "module">>

FusionRequested == path \in DecodePaths /\ path # "ctc" /\ req.params.fwd_bwd_attention

StrategyOps(p) ==
    CASE p = "ctc" -> {"decode_ctc"}
      [] p = "greedy" -> {"greedy"}
      [] p = "fused" -> {"beam_search", "fwd_bwd_attention"}
      [] p = "beam" -> {"beam_search"}

\* The strategy the guards give when read in their order of priority.
ByPriority ==
    IF cfg.ctc_weight = WeightOne \/ (cfg.ctc_weight > 0 /\ req.ctc) THEN "ctc"
    ELSE IF req.params.beam_width = 1 /\ ~req.params.fwd_bwd_attention THEN "greedy"
    ELSE IF req.params.fwd_bwd_attention THEN "fused"
    ELSE "beam"

\* C10: a decode call takes one strategy, the first whose guard holds in the
\* order CTC, greedy (beam_width = 1 and no fusion requested), fused (fusion
\* requested), single-direction beam search; it invokes that strategy's
\* operations only, and a single-direction strategy invokes one.
C10_OneStrategy ==
    path \in DecodePaths =>
        /\ path = ByPriority
        /\ \A c \in DecoderCalls : c.op \in StrategyOps(path)
        /\ path # "fused" => Len(calls) <= 2
        /\ err = "none" => Len(calls) >= 2
        /\ (req.params.beam_width = 1 /\ req.params.fwd_bwd_attention) => path # "greedy"

\* A returned call with beam_width = 1 and fusion requested took the fused
\* branch.
C10_Witness ==
    /\ path = "fused"
    /\ err = "none"
    /\ req.params.beam_width = 1
    /\ req.params.fwd_bwd_attention
    /\ Len(calls) = 4

\* The language model decode looks up for the request: that of the direction
\* with the larger weight, under the sub-task's suffix.
RoutedRnnlm ==
    LET d == IF WeightOne - cfg.bwd_weight >= cfg.bwd_weight THEN "fwd" ELSE "bwd"
    IN  CASE req.task = "ys" -> IF d = "fwd" THEN "rnnlm_fwd" ELSE "rnnlm_bwd"
          [] req.task = "ys_sub1" ->
                IF d = "fwd" THEN "rnnlm_fwd_sub1" ELSE "rnnlm_bwd_sub1"
          [] req.task = "ys_sub2" ->
                IF d = "fwd" THEN "rnnlm_fwd_sub2" ELSE "rnnlm_bwd_sub2"

\* Rescoring is requested on the CTC or the single-direction beam path and the
\* routed direction has no language model.
RescoringUnserved ==
    /\ path \in {"ctc", "beam"}
    /\ req.params.rnnlm_weight > 0
    /\ RoutedRnnlm \notin cfg.rnnlms

\* C11 as stated: when rescoring is requested with a weight > 0 on the CTC or the
\* single-direction beam path and no language model is registered for the routed
\* direction, decode fails with a ConfigurationError before any decoder
\* operation is invoked.
C11_ConfigurationError ==
    RescoringUnserved =>
        /\ err = "ConfigurationError"
        /\ DecoderCalls = {}

\* C11 as amended: in that case decode fails with the AssertionError of its
\* assert statement, after encode and before any decoder operation, and returns
\* nothing.
C11_AssertionError ==
    RescoringUnserved =>
        /\ err = "AssertionError"
        /\ Len(calls) = 1
        /\ calls[1].op = "encode"
        /\ DecoderCalls = {}
        /\ best_hyps = NoHyps

\* A beam search on the first sub-task asked for rescoring: language models of
\* the main task are registered, none of the sub-task, and the decoder that would
\* have been called exists.
C11_Witness ==
    /\ RescoringUnserved
    /\ path = "beam"
    /\ req.task = "ys_sub1"
    /\ cfg.rnnlms # {}
    /\ "dec_fwd_sub1" \in Decoders(cfg)
    /\ cfg.bwd_weight = 0
    /\ err = "AssertionError"

\* The requests that go to one decoder.
SingleDirection == path \in {"ctc", "greedy", "beam", "ctc_posteriors"}

\* The decoder of the claim: forward when the forward weight is no smaller than
\* the backward weight, backward otherwise, under the requested sub-task's suffix.
RoutedDecoder ==
    LET fwd == WeightOne - cfg.bwd_weight >= cfg.bwd_weight
    IN  CASE req.task = "ys" -> IF fwd THEN "dec_fwd" ELSE "dec_bwd"
          [] req.task = "ys_sub1" -> IF fwd THEN "dec_fwd_sub1" ELSE "dec_bwd_sub1"
          [] req.task = "ys_sub2" -> IF fwd THEN "dec_fwd_sub2" ELSE "dec_bwd_sub2"

\* C12: a single-direction request (CTC, greedy, single-direction beam, CTC
\* posteriors) invokes at most one operation on a decoder, and the decoder is
\* the routed one; a request that returns has invoked it.
C12_RoutedDecoder ==
    SingleDirection =>
        /\ Len(calls) <= 2
        /\ \A c \in DecoderCalls : c.obj = RoutedDecoder /\ c.enc = req.task
        /\ err = "none" => Len(calls) = 2

\* CTC posteriors of the first sub-task were computed on a model whose forward
\* and backward weights tie: the forward sub-task decoder was invoked.
C12_Witness ==
    /\ path = "ctc_posteriors"
    /\ err = "none"
    /\ req.task = "ys_sub1"
    /\ cfg.bwd_weight = 5
    /\ calls[2] = Call("ctc_posteriors", "dec_fwd_sub1", "ys_sub1",
                       [temperature |-> "temperature", topk |-> "topk"])

\* The call on the same n-best sets with neither idx2token nor refs.
Undiagnosed == FwdBwdAttention(fus_in, "None", "None")

\* The diagnostic arguments show in the log: the texts when idx2token is given,
\* the reference when refs is given too.
LoggedTexts == \E i \in 1..Len(fus_out.log) : fus_out.log[i].msg = "hyp (fwd-bwd)"

LoggedRefs == \E i \in 1..Len(fus_out.log) : fus_out.log[i].msg = "Ref"

\* C13: whatever idx2token and refs are, the call returns the hypotheses, or
\* raises the error, of the call on the same n-best sets with both None; any two
\* calls on the same n-best sets therefore return the same.
C13_DiagnosticsOnly ==
    FusionDone =>
        \E o \in {Undiagnosed} :
            /\ o.best_hyps = best_hyps
            /\ o.err = err
            /\ o.items = fus_out.items

\* A call given idx2token and refs returned a spliced hypothesis and logged the
\* reference and the texts; the same call without them logs differently.
C13_Witness ==
    /\ FusionDone
    /\ err = "none"
    /\ LoggedTexts
    /\ LoggedRefs
    /\ Pass(1).best.tag.kind = "splice"
    /\ Undiagnosed.log # fus_out.log

\* The call on the batch that holds item k alone.
Alone(k) == FuseBatch(<<Item(k)>>)

\* C14 as stated: in every batch, items of different numbers of hypotheses
\* included, the hypothesis returned at position k is the one the call on item k
\* alone returns.
C14_AnyBatch ==
    (FusionDone /\ err = "none") =>
        \A k \in 1..Len(fus_in) :
            Alone(k).err = "none" => best_hyps[k] = Alone(k).best_hyps[1]

\* C14 as amended: for every item that carries as many forward hypotheses as the
\* first item of its batch, the pass over it is the pass of the call on that item
\* alone, and a batch call that returns gives at its position the hypothesis
\* that call returns.
C14_SameSize ==
    FusionDone =>
        \A k \in 1..Len(fus_in) :
            Len(Item(k).fwd) = NBest =>
                \E a \in {Alone(k)} :
                    /\ k \in PassesMade => Pass(k) = a.items[1]
                    /\ err = "none" =>
                          /\ a.err = "none"
                          /\ best_hyps[k] = a.best_hyps[1]

\* A batch of two items returned two different hypotheses; its second item has
\* the forward hypotheses of the first in number and one backward hypothesis
\* more.
C14_Witness ==
    /\ FusionDone
    /\ err = "none"
    /\ Len(fus_in) = 2
    /\ Len(Item(2).fwd) = NBest
    /\ Len(Item(2).bwd) > Len(Item(1).bwd)
    /\ best_hyps[1] # best_hyps[2]

\* C15: a backward hypothesis of more than one token is seeded once: without its
\* first token and with its second cumulative score (index 1) when that token is
\* <eos>, whole and with its first cumulative score (index 0) otherwise.
C15_BackwardTrim ==
    FusionDone =>
        \A k \in PassesMade : \A n \in 1..NBest :
            LET h == Item(k).bwd[n]
                L == Len(h.hyp)
                c == Pass(k).cands
                seeds == {i \in 1..Len(c) :
                            c[i].tag.kind = "bwd" /\ c[i].tag.n_b = n - 1}
            IN  L > 1 =>
                  /\ Cardinality(seeds) = 1
                  /\ \A i \in seeds :
                        IF h.hyp[1] = eos
                        THEN /\ c[i].hyp = SubSeq(h.hyp, 2, L)
                             /\ c[i].score = h.score[2]
                        ELSE /\ c[i].hyp = h.hyp
                             /\ c[i].score = h.score[1]

\* One item seeded a backward hypothesis that starts with <eos> and one that
\* does not, the dropped step having a score of its own.
C15_Witness ==
    /\ FusionDone
    /\ NBest = 2
    /\ LET b == Item(1).bwd
       IN  /\ Len(b[1].hyp) = 2 /\ b[1].hyp[1] = eos /\ b[1].score[1] # b[1].score[2]
           /\ Len(b[2].hyp) = 2 /\ b[2].hyp[1] # eos
    /\ \E i \in 1..Len(Pass(1).cands) : Pass(1).cands[i].tag = Tag("bwd", -1, 1, -1, -1)

\* The ranks of a direction's hypotheses that have more than one token.
LongRanks(hs) == {n \in 1..Len(hs) : Len(hs[n].hyp) > 1}

\* The positions of the seeded candidates in a candidate list.
SeedsOf(c) == {i \in 1..Len(c) : c[i].tag.kind \in {"fwd", "bwd"}}

\* C16: a hypothesis of one token adds no candidate, seeded or spliced, and
\* raises nothing: an item has as many seeded candidates as it has forward and
\* backward hypotheses of more than one token, and whenever it has a candidate
\* the pass over it selects one.
C16_EosOnlySkipped ==
    FusionDone =>
        \A k \in PassesMade :
            LET c == Pass(k).cands
            IN  /\ Cardinality(SeedsOf(c))
                      = Cardinality(LongRanks(Item(k).fwd))
                        + Cardinality(LongRanks(Item(k).bwd))
                /\ \A i \in 1..Len(c) :
                      /\ c[i].tag.kind \in {"fwd", "splice"} =>
                            c[i].tag.n_f + 1 \in LongRanks(Item(k).fwd)
                      /\ c[i].tag.kind \in {"bwd", "splice"} =>
                            c[i].tag.n_b + 1 \in LongRanks(Item(k).bwd)
                /\ c # <<>> => Pass(k).err = "none"
                /\ (c # <<>> /\ err = "none") => best_hyps[k] = Pass(k).best.hyp

\* An item whose first rank is <eos> only in both directions was fused from the
\* forward hypothesis of its second rank; the <eos>-only hypotheses were logged.
C16_Witness ==
    /\ FusionDone
    /\ err = "none"
    /\ NBest = 2
    /\ Len(Item(1).fwd[1].hyp) = 1
    /\ Len(Item(1).bwd[1].hyp) = 1
    /\ Len(Item(1).bwd[2].hyp) = 1
    /\ Len(Pass(1).cands) = 1
    /\ Pass(1).best.tag = Tag("fwd", 1, -1, -1, -1)
    /\ Len(fus_out.log) = 3

\* The tuples the cross-splice search visits on an item at which the time
\* condition holds and the two hypotheses have the same token.
Matching(it) ==
    {t \in Visited(it) :
        /\ TimeCond(it.fwd[t[1] + 1], it.bwd[t[2] + 1], t[3], t[4])
        /\ it.fwd[t[1] + 1].hyp[t[3] + 1] = it.bwd[t[2] + 1].hyp[t[4] + 1]}

\* The positions of the spliced candidates in a candidate list.
SplicesOf(c) == {i \in 1..Len(c) : c[i].tag.kind = "splice"}

\* C17: the spliced candidates of an item are one for each tuple (n_f, n_b, i_f,
\* i_b), i_f and i_b below the last step, at which t_prev <= t_curr <= t_next
\* and the forward token at i_f is the backward token at i_b, and no other; each
\* is the forward tokens 0..i_f followed by the backward tokens from i_b + 1 on,
\* of the hypotheses as they were given.
C17_OneSplicePerMatch ==
    FusionDone =>
        \A k \in PassesMade :
            \E c \in {Pass(k).cands} :
            \E S \in {SplicesOf(c)}, T \in {Matching(Item(k))} :
                /\ Cardinality(S) = Cardinality(T)
                /\ \A t \in T :
                      \E i \in S : c[i].tag = Tag("splice", t[1], t[2], t[3], t[4])
                /\ \A i \in S :
                      LET g == c[i].tag
                          f == Item(k).fwd[g.n_f + 1]
                          b == Item(k).bwd[g.n_b + 1]
                      IN  /\ <<g.n_f, g.n_b, g.i_f, g.i_b>> \in T
                          /\ c[i].hyp = SubSeq(f.hyp, 1, g.i_f + 1)
                                          \o SubSeq(b.hyp, g.i_b + 2, Len(b.hyp))

\* The search over two hypotheses of three tokens spliced at two tuples or more,
\* one of them past the first step on both sides, passed a tuple with the same
\* token out of time, and kept an <eos> the forward hypothesis had inside.
C17_Witness ==
    /\ FusionDone
    /\ err = "none"
    /\ Cardinality(SplicesOf(Pass(1).cands)) >= 2
    /\ VisitedSameToken(Item(1)) \ VisitedInTime(Item(1)) # {}
    /\ \E i \in SplicesOf(Pass(1).cands) :
          /\ Pass(1).cands[i].tag.i_f = 1
          /\ Pass(1).cands[i].tag.i_b = 1
          /\ Pass(1).cands[i].hyp[1] = eos

\* The cumulative score of the forward tokens before step i_f: none before the
\* first.
PrefixScore(f, i_f) == IF i_f = 0 THEN 0 ELSE f.score[i_f]

\* The score of the claim for a splice of f and b at (i_f, i_b).
ClaimedScore(f, b, i_f, i_b) ==
    LET prefix == PrefixScore(f, i_f)
        suffix == b.score[i_b + 2]
        m_fwd == f.score[i_f + 1] - prefix
        m_bwd == b.score[i_b + 1] - suffix
    IN  prefix + suffix + (IF m_fwd >= m_bwd THEN m_fwd ELSE m_bwd)

\* C18: the score of every spliced candidate is the cumulative score of the
\* forward tokens before the matched one, plus the cumulative score of the
\* backward tokens after it, plus the larger of the two marginal scores of the
\* matched token, at i_f = 0 as well, where no forward token comes before.
C18_SpliceScore ==
    FusionDone =>
        \A k \in PassesMade :
            \A i \in SplicesOf(Pass(k).cands) :
                LET g == Pass(k).cands[i].tag
                IN  Pass(k).cands[i].score
                        = ClaimedScore(Item(k).fwd[g.n_f + 1], Item(k).bwd[g.n_b + 1],
                                       g.i_f, g.i_b)

\* The indices 0..len-1 of a sequence.
Inside(s) == 0..(Len(s) - 1)

\* C20: every index the cross-splice search reads with lies inside the sequence
\* it indexes: the alignment rows i_b + 1, i_f and i_b - 1 at every tuple it
\* visits, and the scores i_f, i_f - 1, i_b and i_b + 1 and the tokens i_f and
\* i_b at every tuple it splices at; nothing is read at index -1.
C20_IndicesInside ==
    FusionDone =>
        \A k \in PassesMade :
            /\ \A t \in Visited(Item(k)) :
                  LET f == Item(k).fwd[t[1] + 1]
                      b == Item(k).bwd[t[2] + 1]
                  IN  /\ IdxPrev(t[4]) \in Inside(b.aw)
                      /\ t[3] \in Inside(f.aw)
                      /\ IdxNext(t[4]) \in Inside(b.aw)
                      /\ t[3] \in Inside(f.hyp)
                      /\ t[4] \in Inside(b.hyp)
            /\ \A t \in Matching(Item(k)) :
                  LET f == Item(k).fwd[t[1] + 1]
                      b == Item(k).bwd[t[2] + 1]
                  IN  /\ t[3] \in Inside(f.score)
                      /\ IdxBefore(t[3]) \in Inside(f.score)
                      /\ t[4] \in Inside(b.score)
                      /\ IdxPrev(t[4]) \in Inside(b.score)

\* The tasks encode bridged in the call, and whether the encoder asks for
\* bridging or bridge_layer enables it.
BridgedTasks == {calls[1].args.bridged[j] : j \in 1..Len(calls[1].args.bridged)}

BridgingOn == cfg.enc_type = "cnn" \/ cfg.bridge_layer

\* The combination weight of a task.
WeightOfTask(t) ==
    CASE t = "ys" -> WeightOne - cfg.sub1_weight - cfg.sub2_weight
      [] t = "ys_sub1" -> cfg.sub1_weight
      [] t = "ys_sub2" -> cfg.sub2_weight

\* C19 as stated: whatever the task argument, encode bridges a task's encoded
\* tensor exactly when the task's weight is non-zero and bridging is on, and
\* every bridge it applies was constructed.
C19_BridgeByWeight ==
    path = "encode" =>
        /\ \A t \in Tasks : t \in BridgedTasks <=> (WeightOfTask(t) # 0 /\ BridgingOn)
        /\ \A t \in BridgedTasks : BridgeName(t) \in Bridges(cfg)

\* C19 as amended: encode bridges a task's encoded tensor exactly when the
\* task's weight is non-zero, bridging is on, and the task argument is 'all' or
\* that task; every bridge it applies was constructed, so that encode does not
\* raise.
C19_BridgeByWeightAndTask ==
    path = "encode" =>
        /\ \A t \in Tasks :
              t \in BridgedTasks <=>
                  (WeightOfTask(t) # 0 /\ BridgingOn /\ req.task \in {"all", t})
        /\ \A t \in BridgedTasks : BridgeName(t) \in Bridges(cfg)
        /\ err = "none"

\* encode for the first sub-task on a model with a CNN encoder and three
\* weighted tasks bridged that sub-task's tensor and no other.
C19_Witness ==
    /\ path = "encode"
    /\ cfg.enc_type = "cnn"
    /\ ~cfg.bridge_layer
    /\ cfg.sub1_weight > 0
    /\ cfg.sub2_weight > 0
    /\ req.task = "ys_sub1"
    /\ calls[1].args.bridged = <<"ys_sub1">>

\* The tokens of a hypothesis.
TokensOf(hyp) == {hyp[i] : i \in 1..Len(hyp)}

\* In every hypothesis of the item, <eos> stands at the terminal position or
\* nowhere: last in a forward hypothesis, first in a backward one.
EosTerminalOnly(it) ==
    /\ \A n \in 1..Len(it.fwd) :
          \A i \in 1..(Len(it.fwd[n].hyp) - 1) : it.fwd[n].hyp[i] # eos
    /\ \A n \in 1..Len(it.bwd) :
          \A i \in 2..Len(it.bwd[n].hyp) : it.bwd[n].hyp[i] # eos

\* Every alignment matrix of the item has one row per token of its hypothesis.
RowPerToken(it) ==
    /\ \A n \in 1..Len(it.fwd) : Len(it.fwd[n].aw) = Len(it.fwd[n].hyp)
    /\ \A n \in 1..Len(it.bwd) : Len(it.bwd[n].aw) = Len(it.bwd[n].hyp)

\* C21: for an item whose hypotheses hold <eos> at the terminal position at most
\* and whose alignment matrices have one row per token, the hypothesis the call
\* returns holds no <eos>, be it a trimmed seed or a splice; so does every
\* candidate the item's pass merged.
C21_NoEndMarker ==
    FusionDone =>
        \A k \in PassesMade :
            (EosTerminalOnly(Item(k)) /\ RowPerToken(Item(k))) =>
                /\ \A i \in 1..Len(Pass(k).cands) : eos \notin TokensOf(Pass(k).cands[i].hyp)
                /\ k <= Len(best_hyps) => eos \notin TokensOf(best_hyps[k])

\* The call returned a splice for an item whose forward hypothesis ends with
\* <eos> and whose backward hypothesis starts with it.
C21_Witness ==
    /\ FusionDone
    /\ err = "none"
    /\ EosTerminalOnly(Item(1))
    /\ RowPerToken(Item(1))
    /\ PyAt(Item(1).fwd[1].hyp, -1) = eos
    /\ PyAt(Item(1).bwd[1].hyp, 0) = eos
    /\ Pass(1).best.tag.kind = "splice"
    /\ best_hyps[1] = Pass(1).best.hyp

\* A call that routes to a decoder by the task: a single-direction request or
\* the training forward pass.
TaskRouted == SingleDirection \/ path = "forward"

\* The decoders the call routes to: the routed one of a single-direction
\* request, those of the forward pass otherwise.
RoutedTo ==
    IF path = "forward"
    THEN {ForwardDecoders(cfg, req.task)[i] : i \in 1..Len(ForwardDecoders(cfg, req.task))}
    ELSE {RoutedDecoder}

\* C22: for a task of positive combination weight, every decoder that decode,
\* get_ctc_posteriors or the training forward pass routes to was constructed, so
\* that the call finds it; a forward decoder of the second sub-task exists
\* whenever sub2_weight > 0, and a sub-task request does not resolve to a
\* backward sub-task decoder that was not built.
C22_RoutedDecoderBuilt ==
    (TaskRouted /\ TaskWeight(cfg, req.task) > 0) =>
        /\ RoutedTo \subseteq Decoders(cfg)
        /\ err # "AttributeError"
        /\ cfg.sub2_weight > 0 => "dec_fwd_sub2" \in Decoders(cfg)
        /\ RoutedTo \cap {"dec_bwd_sub1", "dec_bwd_sub2"} \subseteq Decoders(cfg)

====
